---- MODULE Spec2Model ----
(***************************************************************************)
(* A model of frostdb's bucket-backed block storage (TableBlock.Persist,   *)
(* Table.IterateBucketBlocks, BucketReaderAt.ReadAt) and of the streaming  *)
(* distinct operator (physicalplan.Distinction.Callback).                  *)
(*                                                                         *)
(* The four subsystems share nothing but the bucket handle, so each has    *)
(* its own specification (SpecIter, SpecPersist, SpecReadAt, SpecDistinct) *)
(* in which the variables of the other three stay at their initial values. *)
(***************************************************************************)
EXTENDS Integers, Sequences, FiniteSets, Bags, TLC

\* ------------------------------------------------------------------ bounds

\* Largest number of children listed under the table prefix.
MaxBlocks == 2
\* Largest number of row groups in one block file.
MaxRowGroups == 2
\* Largest millisecond timestamp carried by a block identifier.
MaxTime == 2
\* Largest number of pipe writes one serialisation makes.
MaxChunks == 2
\* Largest number of bytes in a stored object.
MaxObjLen == 3
\* Largest number of rows in one record.
MaxRows == 2
\* Largest number of projection expressions of a distinct operator.
MaxExprs == 2

VARIABLES
    \* --- Table.IterateBucketBlocks
    hasBucket,              \* t.db.bucket != nil
    ignoreStorageOnQuery,   \* t.db.ignoreStorageOnQuery
    listing,                \* children of the table prefix, in the bucket's listing order
    lastBlockTimestamp,     \* the horizon argument
    itPc,                   \* "call" | "iter" | "rg" | "done"
    blockIdx,               \* position of bucket.Iter in the listing (1-based)
    rgIdx,                  \* the loop variable i of the row-group loop
    n,                      \* the counter of blocks opened
    itErr,                  \* the error IterateBucketBlocks returns
    skipped,                \* history: blocks skipped by the horizon test
    statted,                \* history: blocks whose data.parquet was stat'ed
    opened,                 \* history: blocks handed to parquet.OpenFile
    evaluated,              \* history: <<block, row group>> given to filter.Eval
    yielded,                \* history: <<block, row group>> given to the iterator func, in order
    stopped,                \* history: the iterator func has returned false
    filterSaid,             \* history: <<block, row group, may-contain, error>> of every filter.Eval
    raised,                 \* history: the first error a callback returned, "nil" if none
    storeFaults,            \* the store may fail a stat or a read of a sound object
    \* --- TableBlock.Persist
    ulidTime,               \* the millisecond time of t.ulid, the block being persisted
    persistedOk,            \* history: positions in the listing stored by a Persist that returned nil
    uploadReadsToEOF,       \* the bucket's Upload returns success only after reading EOF
    chunksTotal,            \* writes Serialize makes for this block when nothing fails
    pPc,                    \* Persist: "call" | "upload" | "done"
    serPc,                  \* the goroutine: "idle" | "run" | "write" | "ret" | "exit"
    serErr,                 \* the variable err shared by Persist and the goroutine
    chunksRead,             \* writes the uploader has consumed from the pipe
    wClosed,                \* w.Close() has run
    rClosed,                \* r.Close() has run
    sawEOF,                 \* a read of the uploader has returned io.EOF
    uploadErr,              \* what bucket.Upload returned
    serAtReturn,            \* history: the serialiser's outcome when Persist returned
    persistErr,             \* the error Persist returns
    stored,                 \* chunks of the object stored under the block's key, or -1
    \* --- BucketReaderAt.ReadAt
    object,                 \* the bytes stored under b.name
    off,                    \* the argument off
    bufLen,                 \* len(p)
    raPc,                   \* "call" | "done"
    p,                      \* the caller's buffer
    raN,                    \* the count ReadAt returns
    raErr,                  \* the error ReadAt returns
    readErr,                \* history: the error rc.Read returned
    rangeCalls,             \* history: the <<offset, length>> of every GetRange
    streamState,            \* "none" | "open" | "closed"
    \* --- Distinction.Callback
    columns,                \* d.columns
    seen,                   \* d.seen
    dResult,                \* what the last Callback returned, "none" before the first
    nextCalls,              \* calls of d.next.Callback made by the last Callback
    lastDropped,            \* the last Callback skipped a row as already seen
    hasForwarded,           \* history: some record went to the next stage
    outSchema,              \* history: field names of the last record forwarded
    emitted,                \* history: the bag of rows forwarded to the next stage
    emittedHashes,          \* history: the composites of the rows forwarded
    lastNew,                \* rows > 0 when the last Callback left its row loop
    lastAppendErr,          \* what appendValue made the last Callback return, or "nil"
    nextResult,             \* what d.next.Callback returned to the last Callback, or "none"
    \* --- Distinction.Callback, concurrent invocations
    cPc,                    \* per invocation: "idle" | "loop" | "insert" | "tail" | "done"
    cI,                     \* per invocation: the loop variable i of the row loop
    cCur,                   \* per invocation: the row past its membership check
    cOut,                   \* per invocation: the rows appended to the builders
    cRes,                   \* per invocation: "none" | "nil" | "append" | "forwarded"
    inserters               \* history: per composite, the invocations that inserted it

iterVars == <<hasBucket, ignoreStorageOnQuery, listing, lastBlockTimestamp, itPc,
              blockIdx, rgIdx, n, itErr, skipped, statted, opened, evaluated,
              yielded, stopped, filterSaid, raised, storeFaults>>

persistVars == <<ulidTime, persistedOk, uploadReadsToEOF, chunksTotal, pPc, serPc, serErr, chunksRead,
                 wClosed, rClosed, sawEOF, uploadErr, serAtReturn, persistErr, stored>>

readVars == <<object, off, bufLen, raPc, p, raN, raErr, readErr, rangeCalls,
              streamState>>

distinctVars == <<columns, seen, dResult, nextCalls, lastDropped, hasForwarded,
                  outSchema, emitted, emittedHashes, lastNew, lastAppendErr,
                  nextResult, cPc, cI, cCur, cOut, cRes, inserters>>

concVars == <<cPc, cI, cCur, cOut, cRes, inserters>>

vars == <<iterVars, persistVars, readVars, distinctVars>>

notIterVars == <<persistVars, readVars, distinctVars>>
notPersistVars == <<ignoreStorageOnQuery, listing, lastBlockTimestamp, itPc, blockIdx,
                    rgIdx, n, itErr, skipped, statted, opened, evaluated, yielded,
                    stopped, filterSaid, raised, storeFaults, readVars, distinctVars>>

\* What an upload that ends leaves alone: all of the above but the bucket's
\* content.
notPersistNorBucketVars ==
    <<ignoreStorageOnQuery, lastBlockTimestamp, itPc, blockIdx, rgIdx, n, itErr,
      skipped, statted, opened, evaluated, yielded, stopped, filterSaid, raised,
      storeFaults, readVars, distinctVars>>
notReadVars == <<iterVars, persistVars, distinctVars>>
notDistinctVars == <<iterVars, persistVars, readVars>>

\* -------------------------------------------- the subsystems at rest

PersistIdle ==
    /\ ulidTime = 1
    /\ persistedOk = {}
    /\ uploadReadsToEOF = TRUE
    /\ chunksTotal = 0
    /\ pPc = "call"
    /\ serPc = "idle"
    /\ serErr = "nil"
    /\ chunksRead = 0
    /\ wClosed = FALSE
    /\ rClosed = FALSE
    /\ sawEOF = FALSE
    /\ uploadErr = "nil"
    /\ serAtReturn = "none"
    /\ persistErr = [kind |-> "none", cause |-> "nil"]
    /\ stored = -1

ReadIdle ==
    /\ object = <<>>
    /\ off = 0
    /\ bufLen = 0
    /\ raPc = "call"
    /\ p = <<>>
    /\ raN = 0
    /\ raErr = "nil"
    /\ readErr = "nil"
    /\ rangeCalls = <<>>
    /\ streamState = "none"

\* The invocations of the concurrent model, none of them entered.
Producers == {"p1", "p2"}

ConcIdle ==
    /\ cPc = [q \in Producers |-> "idle"]
    /\ cI = [q \in Producers |-> 0]
    /\ cCur = [q \in Producers |-> 0]
    /\ cOut = [q \in Producers |-> <<>>]
    /\ cRes = [q \in Producers |-> "none"]
    /\ inserters = {}

DistinctIdle ==
    /\ columns = <<>>
    /\ seen = {}
    /\ dResult = "none"
    /\ nextCalls = 0
    /\ lastDropped = FALSE
    /\ hasForwarded = FALSE
    /\ outSchema = <<>>
    /\ emitted = EmptyBag
    /\ emittedHashes = {}
    /\ lastNew = FALSE
    /\ lastAppendErr = "nil"
    /\ nextResult = "none"
    /\ ConcIdle

IterIdle ==
    /\ ignoreStorageOnQuery = FALSE
    /\ listing = <<>>
    /\ lastBlockTimestamp = 0
    /\ itPc = "call"
    /\ blockIdx = 0
    /\ rgIdx = 0
    /\ n = 0
    /\ itErr = "nil"
    /\ skipped = {}
    /\ statted = {}
    /\ opened = {}
    /\ evaluated = {}
    /\ yielded = <<>>
    /\ stopped = FALSE
    /\ filterSaid = {}
    /\ raised = "nil"
    /\ storeFaults = TRUE

\* ------------------------------------------------- Table.IterateBucketBlocks

\* A child of the table prefix: a directory whose base name either parses as a
\* ULID carrying a millisecond time, or does not parse; its data.parquet holds
\* numRowGroups row groups.
TableName == "t"

\* fileName := filepath.Join(t.table.name, t.ulid.String(), "data.parquet")
FileName(name, ulid) == <<name, ulid, "data.parquet">>

\* blockName := filepath.Join(blockDir, "data.parquet")
BlockName(blockDir) == blockDir \o <<"data.parquet">>

\* The directory of a key, as bucket.Iter hands it to its callback.
BlockDir(key) == SubSeq(key, 1, Len(key) - 1)

\* An object under a block's key: whether the base name of its directory
\* parses and to which time, whether the file is a whole columnar file (its
\* footer included) and how many row groups it then holds.
Object(ok, t, whole, k) ==
    [wellFormed |-> ok, time |-> t, numRowGroups |-> k, complete |-> whole,
     key |-> FileName(TableName, t)]

Blocks ==
    {Object(TRUE, t, TRUE, k) : t \in 1..MaxTime, k \in 0..MaxRowGroups}
        \cup {Object(FALSE, 0, TRUE, 0)}

\* The bucket lists in lexical order and ULIDs sort by time: among the
\* well-formed children the times never decrease.  A malformed name can sort
\* anywhere.
LexicalOrder(l) ==
    \A i, j \in 1..Len(l) :
        (i < j /\ l[i].wellFormed /\ l[j].wellFormed) => l[i].time <= l[j].time

Listings ==
    {l \in UNION {[1..k -> Blocks] : k \in 0..MaxBlocks} : LexicalOrder(l)}

\* ulid.Parse(filepath.Base(blockDir)) and blockUlid.Time().
UlidParse(b) ==
    IF b.wellFormed THEN [err |-> "nil", time |-> b.time]
    ELSE [err |-> "parse", time |-> 0]

\* The horizon test with > for >=: a block at the horizon itself is not skipped.
SkipByHorizonInclusiveOnly(horizon, t) == horizon # 0 /\ t > horizon

\* lastBlockTimestamp != 0 && blockUlid.Time() >= lastBlockTimestamp
SkipByHorizon(horizon, t) == horizon # 0 /\ t >= horizon

\* The value of the callback's variable err where the iterator func returned
\* false: it was last assigned by filter.Eval, whose error was just found nil.
CallbackReturnOnStop(filterErr) == filterErr

IterInit ==
    /\ PersistIdle
    /\ ReadIdle
    /\ DistinctIdle
    /\ hasBucket \in BOOLEAN
    /\ ignoreStorageOnQuery \in BOOLEAN
    /\ listing \in Listings
    /\ lastBlockTimestamp \in 0..(MaxTime + 1)
    /\ itPc = "call"
    /\ blockIdx = 0
    /\ rgIdx = 0
    /\ n = 0
    /\ itErr = "nil"
    /\ skipped = {}
    /\ statted = {}
    /\ opened = {}
    /\ evaluated = {}
    /\ yielded = <<>>
    /\ stopped = FALSE
    /\ filterSaid = {}
    /\ raised = "nil"
    /\ storeFaults = TRUE

iterHistory == <<skipped, statted, opened, evaluated, yielded, stopped, filterSaid>>
iterInputs == <<hasBucket, ignoreStorageOnQuery, listing, lastBlockTimestamp, storeFaults>>

\* A listing that goes on to the next child whatever the callback returned.
IterAfterCallbackSwallows(ret) ==
    /\ itPc' = "iter"
    /\ blockIdx' = blockIdx + 1
    /\ itErr' = itErr

\* bucket.Iter after its callback returned ret: a failure ends the listing and
\* is what Iter (and so IterateBucketBlocks) returns; otherwise the next child.
IterAfterCallback(ret) ==
    IF ret = "nil"
    THEN /\ itPc' = "iter"
         /\ blockIdx' = blockIdx + 1
         /\ itErr' = itErr
    ELSE /\ itPc' = "done"
         /\ blockIdx' = blockIdx
         /\ itErr' = ret

\* The callback returns ret to bucket.Iter; the first error returned is kept.
CallbackReturns(ret) ==
    /\ raised' = IF raised = "nil" THEN ret ELSE raised
    /\ IterAfterCallback(ret)

\* What filter.Eval can answer: may contain, definitely empty, or an error
\* (with either boolean).
FilterOutcomes == [may : BOOLEAN, err : {"nil", "filter"}]

\* The row groups fetched from the last to the first.
DynamicRowGroupReversed(b, i) == b.numRowGroups - 1 - i

\* rg := buf.DynamicRowGroup(i): the row group at file index i.
DynamicRowGroup(b, i) == i

\* The yield without the test of the filter's answer.
YieldsRowGroupAlways(mayContainUsefulData) == TRUE

\* if mayContainUsefulData { ... iterator(rg) ... }
YieldsRowGroup(mayContainUsefulData) == mayContainUsefulData

\* The early return with the test of the bucket alone.
SkipsStorageNoBucketOnly(bucket, ignore) == ~bucket

\* t.db.bucket == nil || t.db.ignoreStorageOnQuery
SkipsStorage(bucket, ignore) == ~bucket \/ ignore

\* if t.db.bucket == nil || t.db.ignoreStorageOnQuery { return nil }
IterNoBucket ==
    /\ itPc = "call"
    /\ SkipsStorage(hasBucket, ignoreStorageOnQuery)
    /\ itPc' = "done"
    /\ itErr' = "nil"
    /\ UNCHANGED <<iterInputs, blockIdx, rgIdx, n, iterHistory, raised>>
    /\ UNCHANGED notIterVars

\* n := 0; t.db.bucket.Iter(ctx, t.name, ...)
IterBegin ==
    /\ itPc = "call"
    /\ ~SkipsStorage(hasBucket, ignoreStorageOnQuery)
    /\ itPc' = "iter"
    /\ blockIdx' = 1
    /\ n' = 0
    /\ UNCHANGED <<iterInputs, rgIdx, itErr, iterHistory, raised>>
    /\ UNCHANGED notIterVars

\* bucket.Iter has no child left: it returns nil, which IterateBucketBlocks returns.
IterReturn ==
    /\ itPc = "iter"
    /\ blockIdx > Len(listing)
    /\ itPc' = "done"
    /\ itErr' = "nil"
    /\ UNCHANGED <<iterInputs, blockIdx, rgIdx, n, iterHistory, raised>>
    /\ UNCHANGED notIterVars

\* The callback on the next child, up to the row-group loop: parse the
\* identifier, test the horizon, stat the file, open it, wrap it.
BlockCallback ==
    /\ itPc = "iter"
    /\ blockIdx <= Len(listing)
    /\ LET b == listing[blockIdx]
           id == UlidParse(b)
       IN  \/ /\ id.err # "nil"
              /\ CallbackReturns(id.err)
              /\ UNCHANGED <<rgIdx, n, iterHistory>>
           \/ /\ id.err = "nil"
              /\ SkipByHorizon(lastBlockTimestamp, id.time)
              /\ skipped' = skipped \cup {blockIdx}
              /\ CallbackReturns("nil")
              /\ UNCHANGED <<rgIdx, n, statted, opened, evaluated, yielded, stopped,
                             filterSaid>>
           \/ /\ id.err = "nil"
              /\ ~SkipByHorizon(lastBlockTimestamp, id.time)
              /\ statted' = statted \cup {blockIdx}
              /\ \/ \* bucket.Attributes fails: no such object, or a fault
                    /\ storeFaults \/ BlockName(BlockDir(b.key)) # b.key
                    /\ CallbackReturns("stat")
                    /\ UNCHANGED <<rgIdx, n, opened>>
                 \/ \* parquet.OpenFile or dynparquet.NewSerializedBuffer fails:
                    \* the file is cut short, or a fault
                    /\ BlockName(BlockDir(b.key)) = b.key
                    /\ storeFaults \/ ~b.complete
                    /\ opened' = opened \cup {blockIdx}
                    /\ \E e \in {"open", "buffer"} : CallbackReturns(e)
                    /\ UNCHANGED <<rgIdx, n>>
                 \/ \* the file is open: n++ and enter the loop with i := 0
                    /\ BlockName(BlockDir(b.key)) = b.key
                    /\ b.complete
                    /\ opened' = opened \cup {blockIdx}
                    /\ n' = n + 1
                    /\ rgIdx' = 0
                    /\ itPc' = "rg"
                    /\ UNCHANGED <<blockIdx, itErr, raised>>
              /\ UNCHANGED <<skipped, evaluated, yielded, stopped, filterSaid>>
    /\ UNCHANGED iterInputs
    /\ UNCHANGED notIterVars

\* One turn of the row-group loop, or its end.
RowGroupStep ==
    /\ itPc = "rg"
    /\ \/ \* i == buf.NumRowGroups(): the callback returns nil
          /\ rgIdx >= listing[blockIdx].numRowGroups
          /\ CallbackReturns("nil")
          /\ UNCHANGED <<rgIdx, iterHistory>>
       \/ /\ rgIdx < listing[blockIdx].numRowGroups
          /\ \E rg \in {DynamicRowGroup(listing[blockIdx], rgIdx)} :
             \E f \in FilterOutcomes :
                /\ evaluated' = evaluated \cup {<<blockIdx, rg>>}
                /\ filterSaid' = filterSaid \cup {<<blockIdx, rg, f.may, f.err>>}
                /\ IF f.err # "nil"
                   THEN \* filter.Eval fails: return err
                        /\ CallbackReturns(f.err)
                        /\ UNCHANGED <<rgIdx, yielded, stopped>>
                   ELSE IF YieldsRowGroup(f.may)
                   THEN /\ yielded' = Append(yielded, <<blockIdx, rg>>)
                        /\ \/ \* the iterator func wants more
                              /\ rgIdx' = rgIdx + 1
                              /\ UNCHANGED <<itPc, blockIdx, itErr, stopped, raised>>
                           \/ \* the iterator func returns false: return err
                              /\ stopped' = TRUE
                              /\ CallbackReturns(CallbackReturnOnStop(f.err))
                              /\ UNCHANGED rgIdx
                   ELSE \* definitely empty
                        /\ rgIdx' = rgIdx + 1
                        /\ UNCHANGED <<itPc, blockIdx, itErr, yielded, stopped, raised>>
          /\ UNCHANGED <<skipped, statted, opened>>
    /\ UNCHANGED <<iterInputs, n>>
    /\ UNCHANGED notIterVars

IterNext ==
    \/ IterNoBucket
    \/ IterBegin
    \/ IterReturn
    \/ BlockCallback
    \/ RowGroupStep

SpecIter == IterInit /\ [][IterNext]_vars

\* ------------------------------------------------------- TableBlock.Persist
\*
\* Persist runs two threads joined by an io.Pipe: the goroutine of lines 27-30
\* (Serialize into w, then the deferred w.Close()) and the caller, inside
\* bucket.Upload reading r.  A pipe write blocks until a read has taken its
\* bytes or the read end is closed; a read returns io.EOF once the write end
\* is closed.

\* The serialiser's own failure, the failure of a write to a closed pipe
\* (io.ErrClosedPipe), and the store's rejection of an upload.
SerializeCause == "encode"
ClosedPipe == "closedpipe"
StoreCause == "store"

PersistInit ==
    /\ IterIdle
    /\ ReadIdle
    /\ DistinctIdle
    /\ hasBucket \in BOOLEAN
    /\ ulidTime = 1
    /\ persistedOk = {}
    /\ uploadReadsToEOF \in BOOLEAN
    /\ chunksTotal \in 1..MaxChunks
    /\ pPc = "call"
    /\ serPc = "idle"
    /\ serErr = "nil"
    /\ chunksRead = 0
    /\ wClosed = FALSE
    /\ rClosed = FALSE
    /\ sawEOF = FALSE
    /\ uploadErr = "nil"
    /\ serAtReturn = "none"
    /\ persistErr = [kind |-> "none", cause |-> "nil"]
    /\ stored = -1

persistInputs == <<hasBucket, ulidTime, uploadReadsToEOF, chunksTotal>>

\* The serialiser's outcome so far: none while Serialize is running.
SerOutcome == IF serPc \in {"ret", "exit"} THEN serErr ELSE "none"

\* What the read of err at line 38 can observe.  The goroutine's write of err
\* precedes its w.Close(), and a read that returned io.EOF follows that Close:
\* after EOF the read sees the written value.  Without EOF nothing orders the
\* two accesses, and the read sees the initial nil or whatever is written.
ReadSharedErr == IF sawEOF THEN {serErr} ELSE {"nil", serErr}

\* Lines 34-41 without the test of err at line 38.
PersistReturnSwallows(upErr, sErr) ==
    IF upErr # "nil" THEN [kind |-> "upload", cause |-> upErr]
    ELSE [kind |-> "nil", cause |-> "nil"]

\* Lines 34-41: the upload's error first, then the serialiser's.
PersistReturn(upErr, sErr) ==
    IF upErr # "nil" THEN [kind |-> "upload", cause |-> upErr]
    ELSE IF sErr # "nil" THEN [kind |-> "serialize", cause |-> sErr]
    ELSE [kind |-> "nil", cause |-> "nil"]

\* if t.table.db.bucket == nil { return nil }
PersistNoBucket ==
    /\ pPc = "call"
    /\ ~hasBucket
    /\ pPc' = "done"
    /\ persistErr' = [kind |-> "nil", cause |-> "nil"]
    /\ serAtReturn' = SerOutcome
    /\ UNCHANGED <<persistInputs, persistedOk, serPc, serErr, chunksRead, wClosed, rClosed,
                   sawEOF, uploadErr, stored>>
    /\ UNCHANGED notPersistVars

\* io.Pipe(); go func() {...}(); bucket.Upload(ctx, fileName, r) is entered.
PersistBegin ==
    /\ pPc = "call"
    /\ hasBucket
    /\ pPc' = "upload"
    /\ serPc' = "run"
    /\ UNCHANGED <<persistInputs, persistedOk, serErr, chunksRead, wClosed, rClosed, sawEOF,
                   uploadErr, serAtReturn, persistErr, stored>>
    /\ UNCHANGED notPersistVars

\* Serialize calls w.Write: on a closed read end the write fails at once and
\* Serialize returns that error, otherwise the write waits for a reader.
SerWrite ==
    /\ serPc = "run"
    /\ chunksRead < chunksTotal
    /\ IF rClosed
       THEN /\ serPc' = "ret"
            /\ serErr' = ClosedPipe
       ELSE /\ serPc' = "write"
            /\ serErr' = serErr
    /\ UNCHANGED <<persistInputs, persistedOk, pPc, chunksRead, wClosed, rClosed, sawEOF,
                   uploadErr, serAtReturn, persistErr, stored>>
    /\ UNCHANGED notPersistVars

\* r.Close() wakes a blocked write with io.ErrClosedPipe.
SerWriteAbort ==
    /\ serPc = "write"
    /\ rClosed
    /\ serPc' = "ret"
    /\ serErr' = ClosedPipe
    /\ UNCHANGED <<persistInputs, persistedOk, pPc, chunksRead, wClosed, rClosed, sawEOF,
                   uploadErr, serAtReturn, persistErr, stored>>
    /\ UNCHANGED notPersistVars

\* Serialize fails for a reason of its own: err = t.Serialize(w).
SerFail ==
    /\ serPc = "run"
    /\ serPc' = "ret"
    /\ serErr' = SerializeCause
    /\ UNCHANGED <<persistInputs, persistedOk, pPc, chunksRead, wClosed, rClosed, sawEOF,
                   uploadErr, serAtReturn, persistErr, stored>>
    /\ UNCHANGED notPersistVars

\* Serialize has written everything: err = nil.
SerSucceed ==
    /\ serPc = "run"
    /\ chunksRead = chunksTotal
    /\ serPc' = "ret"
    /\ serErr' = "nil"
    /\ UNCHANGED <<persistInputs, persistedOk, pPc, chunksRead, wClosed, rClosed, sawEOF,
                   uploadErr, serAtReturn, persistErr, stored>>
    /\ UNCHANGED notPersistVars

\* defer w.Close()
SerClose ==
    /\ serPc = "ret"
    /\ serPc' = "exit"
    /\ wClosed' = TRUE
    /\ UNCHANGED <<persistInputs, persistedOk, pPc, serErr, chunksRead, rClosed, sawEOF,
                   uploadErr, serAtReturn, persistErr, stored>>
    /\ UNCHANGED notPersistVars

\* A read of the uploader takes the bytes of the pending write.
UploadRead ==
    /\ pPc = "upload"
    /\ serPc = "write"
    /\ chunksRead' = chunksRead + 1
    /\ serPc' = "run"
    /\ UNCHANGED <<persistInputs, persistedOk, pPc, serErr, wClosed, rClosed, sawEOF,
                   uploadErr, serAtReturn, persistErr, stored>>
    /\ UNCHANGED notPersistVars

\* A read of the uploader finds the write end closed: io.EOF.
UploadEOF ==
    /\ pPc = "upload"
    /\ wClosed
    /\ ~sawEOF
    /\ sawEOF' = TRUE
    /\ UNCHANGED <<persistInputs, persistedOk, pPc, serPc, serErr, chunksRead, wClosed, rClosed,
                   uploadErr, serAtReturn, persistErr, stored>>
    /\ UNCHANGED notPersistVars

\* What a successful bucket.Upload leaves under the key of line 33: the bytes
\* it read.  All chunks make the whole file, with the block's row groups; fewer
\* make a file cut short.
UploadedObjects(t, read, total) ==
    IF read = total
    THEN {Object(TRUE, t, TRUE, k) : k \in 0..MaxRowGroups}
    ELSE {Object(TRUE, t, FALSE, 0)}

\* A Persist that returns without closing the read end.
CloseReadEndMissing(closed) == closed

\* defer r.Close(): the read end is closed when Persist returns.
CloseReadEnd(closed) == TRUE

\* Upload returns upErr and Persist runs to its end (lines 34-41, then the
\* deferred r.Close()).
PersistFinish(upErr) ==
    /\ uploadErr' = upErr
    /\ \E observed \in ReadSharedErr :
          /\ persistErr' = PersistReturn(upErr, observed)
          /\ persistedOk' =
                IF upErr = "nil" /\ PersistReturn(upErr, observed).kind = "nil"
                THEN persistedOk \cup {Len(listing) + 1}
                ELSE persistedOk
    /\ serAtReturn' = SerOutcome
    /\ stored' = IF upErr = "nil" THEN chunksRead ELSE stored
    /\ IF upErr = "nil"
       THEN \E obj \in UploadedObjects(ulidTime, chunksRead, chunksTotal) :
                listing' = Append(listing, obj)
       ELSE listing' = listing
    /\ rClosed' = CloseReadEnd(rClosed)
    /\ pPc' = "done"
    /\ UNCHANGED <<persistInputs, serPc, serErr, chunksRead, wClosed, sawEOF>>
    /\ UNCHANGED notPersistNorBucketVars

\* The store accepts the body it read to EOF.
UploadSucceed ==
    /\ pPc = "upload"
    /\ sawEOF
    /\ PersistFinish("nil")

\* An uploader that does not wait for EOF reports success on what it has read.
UploadSucceedEarly ==
    /\ pPc = "upload"
    /\ ~uploadReadsToEOF
    /\ ~sawEOF
    /\ PersistFinish("nil")

\* The store rejects the upload, at any point of it.
UploadFail ==
    /\ pPc = "upload"
    /\ PersistFinish(StoreCause)

PersistNext ==
    \/ PersistNoBucket
    \/ PersistBegin
    \/ SerWrite
    \/ SerWriteAbort
    \/ SerFail
    \/ SerSucceed
    \/ SerClose
    \/ UploadRead
    \/ UploadEOF
    \/ UploadSucceed
    \/ UploadSucceedEarly
    \/ UploadFail

SpecPersist == PersistInit /\ [][PersistNext]_vars

\* The steps of the serialiser goroutine and those of the caller inside
\* bucket.Upload.
SerNext ==
    SerWrite \/ SerWriteAbort \/ SerFail \/ SerSucceed \/ SerClose

CallerNext ==
    \/ PersistNoBucket
    \/ PersistBegin
    \/ UploadRead
    \/ UploadEOF
    \/ UploadSucceed
    \/ UploadSucceedEarly
    \/ UploadFail

\* Persist under a scheduler that lets a runnable goroutine run, with an
\* uploader that keeps reading the pipe until it returns.
SpecPersistFair ==
    /\ PersistInit
    /\ [][PersistNext]_vars
    /\ WF_vars(SerNext)
    /\ WF_vars(CallerNext)

\* ---------------------------------------------------- BucketReaderAt.ReadAt

\* The byte values of stored objects; a fresh buffer holds zeros.
Bytes == {1, 2}
ZeroByte == 0

Objects == UNION {[1..k -> Bytes] : k \in 0..MaxObjLen}

\* B[offset : offset+length]
Slice(B, offset, length) == SubSeq(B, offset + 1, offset + length)

\* What one Read of a stream over exactly length bytes may return into a buffer
\* of that length (io.Reader): some of the bytes and no error, the last bytes
\* with or without io.EOF, or the bytes read before an error of the transport.
StreamReads(length) ==
    IF length = 0
    THEN {[n |-> 0, err |-> "nil"], [n |-> 0, err |-> "EOF"]}
    ELSE {[n |-> k, err |-> "nil"] : k \in 1..length}
            \cup {[n |-> length, err |-> "EOF"]}
            \cup {[n |-> k, err |-> "ioerr"] : k \in 0..(length - 1)}

\* The buffer after a Read that delivered the first k bytes of slice.
FillBuffer(buf, slice, k) ==
    [i \in 1..Len(buf) |-> IF i <= k THEN slice[i] ELSE buf[i]]

\* return rc.Read(p), then the deferred func() { err = rc.Close() }(): the
\* named result err is overwritten by the result of Close.
ReadAtReturn(rd, closeErr) == [n |-> rd.n, err |-> closeErr]

ReadInit ==
    /\ IterIdle
    /\ PersistIdle
    /\ DistinctIdle
    /\ hasBucket = TRUE
    /\ object \in Objects
    /\ off \in 0..Len(object)
    /\ bufLen \in 0..(Len(object) - off)
    /\ raPc = "call"
    /\ p = [i \in 1..bufLen |-> ZeroByte]
    /\ raN = 0
    /\ raErr = "nil"
    /\ readErr = "nil"
    /\ rangeCalls = <<>>
    /\ streamState = "none"

readInputs == <<object, off, bufLen>>

\* b.GetRange fails: return 0, err.
ReadAtRangeFails ==
    /\ raPc = "call"
    /\ rangeCalls' = Append(rangeCalls, <<off, bufLen>>)
    /\ raN' = 0
    /\ raErr' = "getrange"
    /\ raPc' = "done"
    /\ UNCHANGED <<readInputs, p, readErr, streamState>>
    /\ UNCHANGED notReadVars

\* b.GetRange succeeds: one rc.Read(p), then rc.Close().
ReadAt ==
    /\ raPc = "call"
    /\ rangeCalls' = Append(rangeCalls, <<off, bufLen>>)
    /\ \E rd \in StreamReads(bufLen), closeErr \in {"nil", "close"} :
          LET ret == ReadAtReturn(rd, closeErr)
          IN  /\ p' = FillBuffer(p, Slice(object, off, bufLen), rd.n)
              /\ readErr' = rd.err
              /\ raN' = ret.n
              /\ raErr' = ret.err
    /\ streamState' = "closed"
    /\ raPc' = "done"
    /\ UNCHANGED readInputs
    /\ UNCHANGED notReadVars

ReadNext ==
    \/ ReadAtRangeFails
    \/ ReadAt

SpecReadAt == ReadInit /\ [][ReadNext]_vars

\* ----------------------------------------------------- Distinction.Callback

\* The fields of the records the operator receives, in schema order, and the
\* values of a cell; "null" is the null value.
InputSchema == <<"a", "b">>
Values == {"null", "x"}

\* A record: its rows, each a value per field.
Rows == [{"a", "b"} -> Values]
Records == UNION {[1..k -> Rows] : k \in 0..MaxRows}

\* d.columns: plain column expressions, each naming the field it matches; the
\* same field may be named more than once.
ColumnLists == UNION {[1..k -> {"a", "b"}] : k \in 0..MaxExprs}

\* logicalplan.Column.MatchColumn: the expression's column name is the field's.
MatchColumn(col, name) == col = name

\* scalar.Hash(d.hashSeed, scalar.NewStringScalar(field.Name))
FieldHash(name) == CASE name = "a" -> 1 [] name = "b" -> 2

\* hashArray: the hash of one cell, 0 for a null.
ValueHash(v) == CASE v = "null" -> 0 [] v = "x" -> 1

\* hashCombine, an order-sensitive mixer taken to be free of collisions: the
\* Cantor pairing of its arguments.
hashCombine(lhs, rhs) == ((lhs + rhs) * (lhs + rhs + 1)) \div 2 + rhs

\* Lines 53-61: for each field of the schema, in order, one entry per
\* expression of d.columns that matches it.
RECURSIVE MatchesFrom(_, _, _)
MatchesFrom(field, cols, j) ==
    IF j > Len(cols) THEN <<>>
    ELSE (IF MatchColumn(cols[j], field) THEN <<field>> ELSE <<>>)
            \o MatchesFrom(field, cols, j + 1)

RECURSIVE DistinctFieldsFrom(_, _, _)
DistinctFieldsFrom(schema, cols, i) ==
    IF i > Len(schema) THEN <<>>
    ELSE MatchesFrom(schema[i], cols, 1) \o DistinctFieldsFrom(schema, cols, i + 1)

distinctFields(schema, cols) == DistinctFieldsFrom(schema, cols, 1)

\* Lines 77-90: the composite of one row over the distinct columns; a column
\* whose hash is 0 is left out.
RECURSIVE RowHashFrom(_, _, _, _)
RowHashFrom(row, fields, j, hash) ==
    IF j > Len(fields) THEN hash
    ELSE IF ValueHash(row[fields[j]]) = 0
         THEN RowHashFrom(row, fields, j + 1, hash)
         ELSE RowHashFrom(row, fields, j + 1,
                  hashCombine(hash,
                      hashCombine(FieldHash(fields[j]), ValueHash(row[fields[j]]))))

RowHash(row, fields) == RowHashFrom(row, fields, 1, 0)

\* The row as the builders receive it: its value in each distinct column.
Project(row, fields) == [j \in 1..Len(fields) |-> row[fields[j]]]

\* appendValue on row i: it is called once per distinct column, and fails on
\* the row failAt of the record, if any (0: every row can be appended).
appendValue(fields, i, failAt) ==
    IF Len(fields) > 0 /\ i = failAt THEN "append" ELSE "nil"

\* The loop without the insert of lines 107-109.
InsertSeenNever(s, hash) == s

\* d.seen[hash] = struct{}{}
InsertSeen(s, hash) == s \cup {hash}

\* Lines 76-110: the loop over the rows from row i on, given each row's
\* composite, with the seen set s, the rows appended so far (each with its
\* composite) and whether a row was skipped.
RECURSIVE RowLoop(_, _, _, _, _, _, _, _)
RowLoop(rows, hashes, failAt, fields, i, s, out, dropped) ==
    IF i > Len(rows)
    THEN [seen |-> s, out |-> out, dropped |-> dropped, err |-> "nil"]
    ELSE IF hashes[i] \in s
         THEN RowLoop(rows, hashes, failAt, fields, i + 1, s, out, TRUE)
         ELSE IF appendValue(fields, i, failAt) # "nil"
              THEN [seen |-> s, out |-> out, dropped |-> dropped,
                    err |-> appendValue(fields, i, failAt)]
              ELSE RowLoop(rows, hashes, failAt, fields, i + 1,
                       InsertSeen(s, hashes[i]),
                       Append(out, [row |-> Project(rows[i], fields),
                                    hash |-> hashes[i]]),
                       dropped)

\* A Callback that hands every record on, also an empty one.
NoNewRowsNever(rows) == FALSE

\* if rows == 0 { ... return nil }
NoNewRows(rows) == rows = 0

RECURSIVE BagOfRows(_, _)
BagOfRows(out, i) ==
    IF i > Len(out) THEN EmptyBag
    ELSE SetToBag({out[i].row}) (+) BagOfRows(out, i + 1)

DistinctInit ==
    /\ IterIdle
    /\ PersistIdle
    /\ ReadIdle
    /\ hasBucket = TRUE
    /\ columns \in ColumnLists
    /\ seen = {}
    /\ dResult = "none"
    /\ nextCalls = 0
    /\ lastDropped = FALSE
    /\ hasForwarded = FALSE
    /\ outSchema = <<>>
    /\ emitted = EmptyBag
    /\ emittedHashes = {}
    /\ lastNew = FALSE
    /\ lastAppendErr = "nil"
    /\ nextResult = "none"
    /\ ConcIdle

\* One Callback of a single producer, from entry to return.
Callback(r) ==
    \E fields \in {distinctFields(InputSchema, columns)} :
    \E hashes \in {[i \in 1..Len(r) |-> RowHash(r[i], fields)]} :
    \E failAt \in 0..Len(r) :
    \E res \in {RowLoop(r, hashes, failAt, fields, 1, seen, <<>>, FALSE)} :
        /\ seen' = res.seen
        /\ lastDropped' = res.dropped
        /\ lastNew' = (Len(res.out) > 0)
        /\ lastAppendErr' = res.err
        /\ IF res.err # "nil"
           THEN \* return err: the builders are dropped, nothing goes downstream
                /\ dResult' = res.err
                /\ nextCalls' = 0
                /\ nextResult' = "none"
                /\ UNCHANGED <<hasForwarded, outSchema, emitted, emittedHashes>>
           ELSE IF NoNewRows(Len(res.out))
           THEN \* rows == 0: return nil
                /\ dResult' = "nil"
                /\ nextCalls' = 0
                /\ nextResult' = "none"
                /\ UNCHANGED <<hasForwarded, outSchema, emitted, emittedHashes>>
           ELSE \* d.next.Callback(ctx, distinctRecord), whose result is returned
                /\ nextResult' \in {"nil", "next"}
                /\ dResult' = nextResult'
                /\ nextCalls' = 1
                /\ hasForwarded' = TRUE
                /\ outSchema' = fields
                /\ emitted' = emitted (+) BagOfRows(res.out, 1)
                /\ emittedHashes' =
                       emittedHashes \cup {res.out[k].hash : k \in 1..Len(res.out)}
        /\ UNCHANGED <<columns, concVars>>
        /\ UNCHANGED notDistinctVars

DistinctNext ==
    \E r \in Records : Callback(r)

SpecDistinct == DistinctInit /\ [][DistinctNext]_vars

\* ------------------------------- Distinction.Callback, concurrent invocations
\*
\* Two producers call Callback on one operator at once.  d.seen is read under
\* d.mtx.RLock and written under d.mtx.Lock, so the membership check of lines
\* 92-97 and the insert of lines 106-109 are each one step; what lies between
\* them touches only the invocation's own builders.  The rows of a record are
\* drawn when the loop reaches them.

\* A membership check that never finds the composite.
IsSeenNever(s, hash) == FALSE

\* _, ok := d.seen[hash], under the read lock.
IsSeen(s, hash) == hash \in s

DistinctConcInit ==
    /\ IterIdle
    /\ PersistIdle
    /\ ReadIdle
    /\ hasBucket = TRUE
    /\ columns \in ColumnLists
    /\ seen = {}
    /\ dResult = "none"
    /\ nextCalls = 0
    /\ lastDropped = FALSE
    /\ hasForwarded = FALSE
    /\ outSchema = <<>>
    /\ emitted = EmptyBag
    /\ emittedHashes = {}
    /\ lastNew = FALSE
    /\ lastAppendErr = "nil"
    /\ nextResult = "none"
    /\ ConcIdle

seqDistinctVars == <<columns, dResult, nextCalls, lastDropped, hasForwarded, outSchema,
                     emitted, emittedHashes, lastNew, lastAppendErr, nextResult>>

\* Callback is entered: lines 45-74, up to the row loop.
ConcEnter(q) ==
    /\ cPc[q] = "idle"
    /\ cPc' = [cPc EXCEPT ![q] = "loop"]
    /\ UNCHANGED <<seen, cI, cCur, cOut, cRes, inserters, seqDistinctVars>>
    /\ UNCHANGED notDistinctVars

\* The head of the row loop: the record is at its end, or its next row is
\* hashed and looked up in d.seen.
ConcCheck(q) ==
    /\ cPc[q] = "loop"
    /\ \/ \* i == r.NumRows()
          /\ cPc' = [cPc EXCEPT ![q] = "tail"]
          /\ UNCHANGED <<cI, cCur>>
       \/ /\ cI[q] < MaxRows
          /\ \E row \in Rows :
             \E hash \in {RowHash(row, distinctFields(InputSchema, columns))} :
                IF IsSeen(seen, hash)
                THEN \* continue
                     /\ cI' = [cI EXCEPT ![q] = @ + 1]
                     /\ UNCHANGED <<cPc, cCur>>
                ELSE /\ cCur' = [cCur EXCEPT ![q] =
                            [idx |-> cI[q], hash |-> hash,
                             prior |-> {w \in Producers : <<hash, w>> \in inserters}]]
                     /\ cPc' = [cPc EXCEPT ![q] = "insert"]
                     /\ UNCHANGED cI
    /\ UNCHANGED <<seen, cOut, cRes, inserters, seqDistinctVars>>
    /\ UNCHANGED notDistinctVars

\* Lines 99-109: appendValue fails and Callback returns its error, or the row
\* is appended, rows++ and the composite inserted under the write lock.
ConcInsert(q) ==
    /\ cPc[q] = "insert"
    /\ \/ /\ Len(distinctFields(InputSchema, columns)) > 0
          /\ cPc' = [cPc EXCEPT ![q] = "done"]
          /\ cRes' = [cRes EXCEPT ![q] = "append"]
          /\ UNCHANGED <<seen, cI, cOut, inserters>>
       \/ /\ cOut' = [cOut EXCEPT ![q] = Append(@, cCur[q])]
          /\ seen' = InsertSeen(seen, cCur[q].hash)
          /\ inserters' = inserters \cup {<<cCur[q].hash, q>>}
          /\ cI' = [cI EXCEPT ![q] = @ + 1]
          /\ cPc' = [cPc EXCEPT ![q] = "loop"]
          /\ UNCHANGED cRes
    /\ cCur' = [cCur EXCEPT ![q] = 0]
    /\ UNCHANGED seqDistinctVars
    /\ UNCHANGED notDistinctVars

\* Lines 112-133: nothing new, or the record of the appended rows goes to the
\* next stage.
ConcTail(q) ==
    /\ cPc[q] = "tail"
    /\ cPc' = [cPc EXCEPT ![q] = "done"]
    /\ cRes' = [cRes EXCEPT ![q] =
                    IF NoNewRows(Len(cOut[q])) THEN "nil" ELSE "forwarded"]
    /\ UNCHANGED <<seen, cI, cCur, cOut, inserters, seqDistinctVars>>
    /\ UNCHANGED notDistinctVars

DistinctConcNext ==
    \E q \in Producers :
        ConcEnter(q) \/ ConcCheck(q) \/ ConcInsert(q) \/ ConcTail(q)

SpecDistinctConc == DistinctConcInit /\ [][DistinctConcNext]_vars

\* ------------------------------------------- Persist, then IterateBucketBlocks
\*
\* One table over one bucket: its blocks are persisted one after the other,
\* each under a later identifier, by an Upload that reads its body to EOF; then
\* a query iterates over what the bucket holds.  The bucket serves what it
\* holds without faults of its own.

StoreInit ==
    /\ ReadIdle
    /\ DistinctIdle
    /\ hasBucket \in BOOLEAN
    /\ ignoreStorageOnQuery \in BOOLEAN
    /\ storeFaults = FALSE
    /\ lastBlockTimestamp \in {0, MaxTime}
    /\ listing = <<>>
    /\ itPc = "call"
    /\ blockIdx = 0
    /\ rgIdx = 0
    /\ n = 0
    /\ itErr = "nil"
    /\ skipped = {}
    /\ statted = {}
    /\ opened = {}
    /\ evaluated = {}
    /\ yielded = <<>>
    /\ stopped = FALSE
    /\ filterSaid = {}
    /\ raised = "nil"
    /\ ulidTime = 1
    /\ persistedOk = {}
    /\ uploadReadsToEOF = TRUE
    /\ chunksTotal \in 1..MaxChunks
    /\ pPc = "call"
    /\ serPc = "idle"
    /\ serErr = "nil"
    /\ chunksRead = 0
    /\ wClosed = FALSE
    /\ rClosed = FALSE
    /\ sawEOF = FALSE
    /\ uploadErr = "nil"
    /\ serAtReturn = "none"
    /\ persistErr = [kind |-> "none", cause |-> "nil"]
    /\ stored = -1

\* Persist has returned and its goroutine has ended.
PersistOver == pPc = "done" /\ serPc \in {"idle", "exit"}

\* A step of Persist on the current block, before any query.
StorePersist ==
    /\ itPc = "call"
    /\ PersistNext

\* The table's next block, with a later identifier, is about to be persisted.
NewTableBlock ==
    /\ PersistOver
    /\ itPc = "call"
    /\ ulidTime < MaxTime
    /\ ulidTime' \in (ulidTime + 1)..MaxTime
    /\ chunksTotal' \in 1..MaxChunks
    /\ pPc' = "call"
    /\ serPc' = "idle"
    /\ serErr' = "nil"
    /\ chunksRead' = 0
    /\ wClosed' = FALSE
    /\ rClosed' = FALSE
    /\ sawEOF' = FALSE
    /\ uploadErr' = "nil"
    /\ serAtReturn' = "none"
    /\ persistErr' = [kind |-> "none", cause |-> "nil"]
    /\ stored' = -1
    /\ UNCHANGED <<hasBucket, uploadReadsToEOF, persistedOk>>
    /\ UNCHANGED notPersistVars

\* A step of IterateBucketBlocks, once the last Persist is over.
StoreQuery ==
    /\ PersistOver
    /\ IterNext

StoreNext ==
    \/ StorePersist
    \/ NewTableBlock
    \/ StoreQuery

SpecStore == StoreInit /\ [][StoreNext]_vars

\* ==================================================================== claims

\* Blocks on which the iterator has done anything beyond parsing the name.
TouchedBlocks ==
    statted \cup opened \cup {e[1] : e \in evaluated}
        \cup {yielded[k][1] : k \in 1..Len(yielded)}

\* C1 (as claimed): once the iterator func has returned false, nothing more is
\* stat'ed, opened, evaluated or yielded, in this block or in any later block
\* of the listing.
EarlyStop ==
    [][stopped => /\ statted' = statted
                  /\ opened' = opened
                  /\ evaluated' = evaluated
                  /\ yielded' = yielded]_vars

\* C9 (as claimed): an IterateBucketBlocks in which the iterator func returned
\* false returns nil, whatever follows the stopping block in the listing.
StopReturnsSuccess ==
    (itPc = "done" /\ stopped) => itErr = "nil"

\* C10: with a horizon other than 0 every block that was stat'ed, opened,
\* filtered or yielded from has an identifier time below the horizon, and only
\* blocks at or above it are skipped; with horizon 0 no block is skipped.
HorizonCorrectness ==
    /\ \A b \in TouchedBlocks :
          lastBlockTimestamp # 0 => listing[b].time < lastBlockTimestamp
    /\ \A b \in skipped :
          lastBlockTimestamp # 0 /\ listing[b].time >= lastBlockTimestamp
    /\ lastBlockTimestamp = 0 => skipped = {}

\* C10 witness: a finished run that skipped a block whose time is the horizon
\* itself and yielded a row group of an earlier block.
HorizonWitness ==
    /\ itPc = "done"
    /\ lastBlockTimestamp # 0
    /\ \E b \in skipped : listing[b].time = lastBlockTimestamp
    /\ statted # {}
    /\ Len(yielded) > 0

\* C2 (as claimed): when the serialiser has failed for a reason of its own by
\* the time Persist returns, the error Persist returns is a serialisation
\* failure naming that reason; stated for an uploader that reads to EOF.
PersistNamesSerializerCause ==
    (pPc = "done" /\ hasBucket /\ uploadReadsToEOF /\ serAtReturn = SerializeCause)
        => (persistErr.kind = "serialize" /\ persistErr.cause = SerializeCause)

\* C3: with an uploader that reads the pipe to EOF, a failed Serialize and a
\* successful Upload make Persist return the serialisation error, and Persist
\* returns nil only when Serialize and Upload both succeeded.
PersistNeverSwallows ==
    (pPc = "done" /\ hasBucket /\ uploadReadsToEOF) =>
        /\ (uploadErr = "nil" /\ serAtReturn \notin {"nil", "none"})
              => (persistErr.kind = "serialize" /\ persistErr.cause = serAtReturn)
        /\ persistErr.kind = "nil" => (uploadErr = "nil" /\ serAtReturn = "nil")

\* C3 witness: Serialize failed after some but not all of its writes, the
\* upload succeeded on the truncated body, and Persist reported the failure.
TruncatedUploadReported ==
    /\ pPc = "done"
    /\ uploadReadsToEOF
    /\ serAtReturn = SerializeCause
    /\ uploadErr = "nil"
    /\ 0 < chunksRead /\ chunksRead < chunksTotal
    /\ stored = chunksRead
    /\ persistErr.kind = "serialize"

\* C4 (as claimed): a ReadAt whose range stream was opened and reported no
\* transport error returns n = len(p) and leaves in p the bytes
\* B[off : off+len(p)], however the stream cut them into reads.
RangeReadRoundTrip ==
    (raPc = "done" /\ streamState = "closed" /\ readErr \in {"nil", "EOF"})
        => (raN = bufLen /\ p = Slice(object, off, bufLen))

\* C5 (as claimed): ReadAt returns fewer bytes than len(p) only with a non-nil
\* error, and returns the error that reading the range stream returned.
ReadAtReportsShortReads ==
    raPc = "done" =>
        /\ raN < bufLen => raErr # "nil"
        /\ readErr = "ioerr" => raErr = "ioerr"

\* C6 (as claimed): between Callbacks, every composite in the seen set is the
\* composite of a row that was forwarded to the next stage.
SeenImpliesEmitted ==
    seen \subseteq emittedHashes

\* C7: the rows forwarded to the next stage by a single producer hold each
\* projected tuple at most once.
DistinctUniqueness ==
    \A t \in BagToSet(emitted) : CopiesIn(t, emitted) <= 1

\* C7 witness: a Callback that skipped a row already seen and forwarded a new
\* one, after which two different tuples have been forwarded.
DuplicateDroppedWitness ==
    /\ lastDropped
    /\ nextCalls = 1
    /\ Cardinality(BagToSet(emitted)) >= 2

\* The fields of the schema matched by some expression, in schema order.
MatchedFields ==
    SelectSeq(InputSchema,
              LAMBDA f : \E j \in 1..Len(columns) : MatchColumn(columns[j], f))

\* C8 (as claimed): the record forwarded has exactly one column per matched
\* field, in schema order, also when several expressions match one field.
OutputSchemaExact ==
    hasForwarded => outSchema = MatchedFields

\* C11. Filter soundness: every row group handed to the yield function is one
\* for which filter.Eval answered may-contain without an error; a row group
\* answered definitely-empty, or with an error, is never yielded.
FilterSoundness ==
    \A k \in 1..Len(yielded) :
        /\ <<yielded[k][1], yielded[k][2], TRUE, "nil">> \in filterSaid
        /\ \A f \in filterSaid :
              (f[1] = yielded[k][1] /\ f[2] = yielded[k][2]) => (f[3] /\ f[4] = "nil")

\* C11 witness: a run that ended after the filter excluded one row group and
\* let another through to the yield function.
FilterSoundnessWitness ==
    /\ itPc = "done"
    /\ Len(yielded) > 0
    /\ \E f \in filterSaid : ~f[3] /\ f[4] = "nil"
    /\ \E f \in filterSaid : f[4] = "filter"

\* C12. The iterator stops at the first error: once a callback has returned an
\* error (malformed identifier, stat, open or filter error) the call is over
\* and returns that very error, and from then on nothing more is stat'ed,
\* opened, evaluated or yielded.
IterStopsAtFirstError ==
    /\ [](raised # "nil" => (itPc = "done" /\ itErr = raised))
    /\ [][raised # "nil" => UNCHANGED <<statted, opened, evaluated, yielded>>]_vars

\* C12 witness: a filter error ended the call after a yield, with a later
\* block still unvisited.
IterStopsAtFirstErrorWitness ==
    /\ raised = "filter"
    /\ itErr = "filter"
    /\ Len(yielded) > 0
    /\ blockIdx < Len(listing)
    /\ statted = {blockIdx}

\* C14. Ordering: with children listed in lexical order, a row group of a block
\* with the smaller identifier time is yielded before any row group of a block
\* with a larger one; within a block row groups are yielded in increasing file
\* index, and each evaluation is of a later (block, index) than all before it.
IterOrdering ==
    /\ [](\A i, j \in 1..Len(yielded) :
            /\ (listing[yielded[i][1]].time < listing[yielded[j][1]].time) => i < j
            /\ (i < j /\ yielded[i][1] = yielded[j][1]) => yielded[i][2] < yielded[j][2])
    /\ [][\A e \in evaluated' \ evaluated : \A f \in evaluated :
            f[1] < e[1] \/ (f[1] = e[1] /\ f[2] < e[2])]_vars

\* C14 witness: two row groups of one block were yielded, then one of a block
\* with a larger time.
IterOrderingWitness ==
    /\ Len(yielded) >= 3
    /\ yielded[1][1] = yielded[2][1]
    /\ listing[yielded[2][1]].time < listing[yielded[3][1]].time

\* C13. Downstream call protocol: a Callback that appended at least one new row
\* without an append error calls the next stage exactly once and returns its
\* result; one that found no new row calls it zero times and returns success;
\* one that met an append error calls it zero times and returns that error.
DownstreamProtocol ==
    dResult # "none" =>
        /\ lastAppendErr # "nil" => (nextCalls = 0 /\ dResult = lastAppendErr)
        /\ (lastAppendErr = "nil" /\ ~lastNew) => (nextCalls = 0 /\ dResult = "nil")
        /\ (lastAppendErr = "nil" /\ lastNew) =>
               (nextCalls = 1 /\ nextResult # "none" /\ dResult = nextResult)

\* C13 witness: after a Callback whose append failed past a new row, a Callback
\* with a new row and a dropped one returned the next stage's error.
DownstreamProtocolWitness ==
    /\ lastNew
    /\ lastDropped
    /\ lastAppendErr = "nil"
    /\ nextCalls = 1
    /\ dResult = "next"
    /\ seen # emittedHashes

\* The tuple of a row whose distinct columns are all null.
NullTuple == [j \in 1..Len(distinctFields(InputSchema, columns)) |-> "null"]

\* C19. Null policy: a row whose distinct columns are all null has composite 0;
\* once such a row has passed the row loop (its composite is in d.seen) exactly
\* one such row has been forwarded, and never more than one.
NullPolicy ==
    /\ \A row \in Rows :
          Project(row, distinctFields(InputSchema, columns)) = NullTuple
              => RowHash(row, distinctFields(InputSchema, columns)) = 0
    /\ CopiesIn(NullTuple, emitted) <= 1
    /\ 0 \in seen => CopiesIn(NullTuple, emitted) = 1

\* C17. Persist never leaves the serialiser blocked: in every fair execution
\* Persist returns and the serialiser goroutine ends; a finished serialiser has
\* closed the write end, and a returned Persist that started the goroutine has
\* closed the read end, so no pipe write waits forever.
PersistNeverBlocks ==
    /\ <>[](pPc = "done" /\ serPc \in {"idle", "exit"})
    /\ [](serPc = "exit" => wClosed)
    /\ []((pPc = "done" /\ serPc # "idle") => rClosed)

\* C17 witness: the upload failed before reading the whole body, and the
\* serialiser's pipe write failed on the closed read end and the goroutine
\* ended.
PersistNeverBlocksWitness ==
    /\ pPc = "done"
    /\ uploadErr = StoreCause
    /\ chunksRead < chunksTotal
    /\ serPc = "exit"
    /\ serErr = ClosedPipe
    /\ wClosed

\* C15. No-bucket no-op: with no bucket Persist returns success without pipe,
\* serialiser or upload, and nothing is ever stored; with no bucket, or with
\* storage reads disabled, IterateBucketBlocks returns success without listing,
\* stat'ing, opening, evaluating or yielding anything.
NoBucketNoOp ==
    /\ ~hasBucket =>
          /\ pPc \in {"call", "done"}
          /\ serPc = "idle"
          /\ ~wClosed /\ ~rClosed /\ ~sawEOF
          /\ chunksRead = 0
          /\ stored = -1
          /\ listing = <<>>
          /\ pPc = "done" => persistErr = [kind |-> "nil", cause |-> "nil"]
    /\ (~hasBucket \/ ignoreStorageOnQuery) =>
          /\ itPc \in {"call", "done"}
          /\ blockIdx = 0
          /\ n = 0
          /\ skipped = {} /\ statted = {} /\ opened = {} /\ evaluated = {}
          /\ yielded = <<>>
          /\ itErr = "nil"

\* C15 witness: without a bucket two blocks were persisted and a query has
\* returned.
NoBucketNoOpWitness ==
    /\ ~hasBucket
    /\ ulidTime > 1
    /\ pPc = "done"
    /\ itPc = "done"

\* C20. A failed Persist leaves nothing for readers: every object in the bucket
\* is the whole serialisation of its block, and a Persist that returned an
\* error stored no part of it.
NoTruncatedObject ==
    /\ \A i \in 1..Len(listing) : listing[i].complete
    /\ (pPc = "done" /\ persistErr.kind # "nil") => stored \in {-1, chunksTotal}

\* The row groups of the blocks at the positions in S of the listing.
RECURSIVE SumRowGroups(_)
SumRowGroups(S) ==
    IF S = {} THEN 0
    ELSE LET i == CHOOSE x \in S : TRUE
         IN  listing[i].numRowGroups + SumRowGroups(S \ {i})

\* C18. Persist/iterate agreement: a query with horizon 0 over a store without
\* faults, whose filter always answered may-contain and whose yield never
\* stopped, returns success having opened every block a successful Persist
\* stored and yielded each of its row groups once, as many row groups of those
\* blocks as they hold.
PersistIterateAgreement ==
    ( /\ itPc = "done"
      /\ hasBucket /\ ~ignoreStorageOnQuery
      /\ lastBlockTimestamp = 0
      /\ ~storeFaults
      /\ ~stopped
      /\ \A f \in filterSaid : f[3] /\ f[4] = "nil" )
    =>
    ( /\ itErr = "nil"
      /\ persistedOk \subseteq opened
      /\ \A i \in persistedOk : \A g \in 0..(listing[i].numRowGroups - 1) :
            Cardinality({k \in 1..Len(yielded) : yielded[k] = <<i, g>>}) = 1
      /\ Cardinality({k \in 1..Len(yielded) : yielded[k][1] \in persistedOk})
            = SumRowGroups(persistedOk) )

\* The rows an invocation has handed to the next stage.
Forwarded(q) == IF cRes[q] = "forwarded" THEN cOut[q] ELSE <<>>

\* C16. Duplicates under concurrent Callbacks come from overlap only: an
\* invocation forwards a composite at most once; it never forwards a row whose
\* membership check came after an insert of its composite; and when two
\* invocations forward the same composite, the check of one came before the
\* insert of the other.
OverlapOnlyDuplicates ==
    /\ \A q \in Producers : \A j, k \in 1..Len(Forwarded(q)) :
          j # k => Forwarded(q)[j].hash # Forwarded(q)[k].hash
    /\ \A q \in Producers : \A k \in 1..Len(Forwarded(q)) :
          Forwarded(q)[k].prior = {}
    /\ \A q, w \in Producers :
          \A j \in 1..Len(Forwarded(q)) : \A k \in 1..Len(Forwarded(w)) :
             (q # w /\ Forwarded(q)[j].hash = Forwarded(w)[k].hash)
                 => (w \notin Forwarded(q)[j].prior \/ q \notin Forwarded(w)[k].prior)

\* C16 witness: both invocations forwarded the same composite, and one of them
\* dropped a later row because its check came after an insert.
OverlapOnlyDuplicatesWitness ==
    /\ \A q \in Producers : cRes[q] = "forwarded"
    /\ \E j \in 1..Len(cOut["p1"]) : \E k \in 1..Len(cOut["p2"]) :
          cOut["p1"][j].hash = cOut["p2"][k].hash
    /\ \E q \in Producers : cI[q] > Len(cOut[q])

====
